---------------------------- MODULE Spec2Model ----------------------------
(***************************************************************************)
(* Model of saga.py: Action (one step: action + compensation + the kwargs  *)
(* it was last called with), Saga (the runner: execute and                 *)
(* __run_compensations) and SagaError (the composite error).               *)
(*                                                                         *)
(* The action and compensation callables are supplied by the caller; the   *)
(* model chooses what each call does (returns a value, raises an error)    *)
(* when the call is made.  execute() is followed call by call: one step of *)
(* the model per call of an action or of a compensation, the code around   *)
(* the call included.  Indices are 0-based as in the code.                 *)
(***************************************************************************)
EXTENDS Integers, Sequences, FiniteSets

\* The largest number of steps of a saga.
MaxSteps == 3

\* The largest number of Saga objects one builder builds.
MaxSagas == 2

\* The numbers of steps of the sagas that two execute() calls run at once.
ConcurrentSizes == {1, 2}

----------------------------------------------------------------------------
(* Python values.  Every value is a record of one shape, so that any two   *)
(* values can be compared: its type, the items of a mapping (a set of      *)
(* <<key, value>> pairs with unique string keys), the number of an int.    *)

PyValue(type, items, num) == [type |-> type, items |-> items, num |-> num]

None == PyValue("NoneType", {}, 0)

Dict(items) == PyValue("dict", items, 0)

\* A mapping whose type is not dict itself.
OrderedDict(items) == PyValue("OrderedDict", items, 0)

PyInt(n) == PyValue("int", {}, n)

\* What a compensation called as compensation() receives: no argument.
NoArgs == PyValue("no arguments", {}, 0)

\* bool(v): None, 0 and an empty mapping are false.
Truthy(v) ==
    CASE v.type = "NoneType" -> FALSE
      [] v.type = "int" -> v.num # 0
      [] OTHER -> v.items # {}

\* `v or d`
OrElse(v, d) == IF Truthy(v) THEN v ELSE d

\* The items a context may hold: {}, {"a": 1}, {"a": 2}.
Mappings == {{}, {<<"a", 1>>}, {<<"a", 2>>}}

\* What a call of an action callable may return.
ReturnValues ==
    {None} \cup {Dict(m) : m \in Mappings} \cup {PyInt(0), PyInt(1)}
           \cup {OrderedDict({}), OrderedDict({<<"a", 1>>})}

(* Errors.  An error object is known by its type and by the place that     *)
(* raised it: each raise makes a new object.                               *)
Error(type, by, index) == [type |-> type, by |-> by, index |-> index]

NoError == Error("none", "none", -1)

\* The types of the errors an action callable may raise.
ActionErrorTypes == {"BaseException", "TypeError"}

\* The types of the errors a compensation callable may raise.
CompensationErrorTypes == {"BaseException"}

----------------------------------------------------------------------------
VARIABLES
    actions,                  \* Saga.actions: the list of Action objects
    pc,                       \* where execute() is: idle, acting, compensating, done
    action_index,             \* execute: the loop index
    kwargs,                   \* execute: the local kwargs
    e,                        \* execute: the caught error of the action
    compensation_index,       \* __run_compensations: the loop index
    compensation_exceptions,  \* __run_compensations: the errors collected
    outcome,                  \* what the last execute() call gave its caller
    log,                      \* the calls made by the current execute(), in order
    saga,                     \* the Saga object the current execute() runs on
    suspended,                \* another execute() call, while it does not run
    sagas,                    \* the number of Saga objects that hold the list
    added                     \* the number of pairs given to SagaBuilder.action

vars == <<actions, pc, action_index, kwargs, e, compensation_index,
          compensation_exceptions, outcome, log, saga, suspended, sagas, added>>

----------------------------------------------------------------------------
\* A SagaError whose action field is taken from the compensation errors.
SagaErrorOfFirstCompensation(exception, compensation_exceptions_) ==
    [kind |-> "SagaError",
     action |-> IF compensation_exceptions_ = <<>> THEN exception
                ELSE compensation_exceptions_[1],
     compensations |-> compensation_exceptions_, error |-> NoError]

(* SagaError.__init__ *)
SagaError(exception, compensation_exceptions_) ==
    [kind |-> "SagaError", action |-> exception,
     compensations |-> compensation_exceptions_, error |-> NoError]

\* The TypeError execute() raises for a bad return type.
ContractTypeError(index) ==
    [kind |-> "TypeError", action |-> NoError, compensations |-> <<>>,
     error |-> Error("TypeError", "execute", index)]

\* execute() returned None.
Returned ==
    [kind |-> "returned", action |-> NoError, compensations |-> <<>>,
     error |-> NoError]

\* execute() has not ended (or was never called).
NoOutcome(kind) ==
    [kind |-> kind, action |-> NoError, compensations |-> <<>>,
     error |-> NoError]

\* The callables of the k-th pair the caller supplies.
ActionCallable(k) == <<"action", k>>

CompensationCallable(k) == <<"compensation", k>>

(* Action.__init__: the two callables, and no kwargs recorded yet. *)
NewAction(action, compensation) ==
    [kwargs |-> None, action |-> action, compensation |-> compensation]

(* Action.act, its first line: the keyword arguments are recorded, as a    *)
(* dict whatever mapping was expanded, before the action is called.        *)
RecordKwargs(step, kw) == [step EXCEPT !.kwargs = Dict(kw.items)]

(* Action.compensate: the argument of the compensation callable. *)
CompensationArgs(step) == IF Truthy(step.kwargs) THEN step.kwargs ELSE NoArgs

(* Saga.__get_action *)
GetAction(index) == actions[index + 1]

\* A loop that stops one step early.
LoopDoneOneEarly(index) == index >= Len(actions) - 1

\* execute: range(len(self.actions)) is exhausted.
LoopDone(index) == index >= Len(actions)

\* A result that is not handed on: the next step starts from {}.
DropsResult(returned) == IF Truthy(returned) /\ returned.type # "dict"
                           THEN returned ELSE Dict({})

\* execute: the value act(...) returned, `or {}`.
NextKwargs(returned) == OrElse(returned, Dict({}))

\* execute: `type(kwargs) is not dict`
BadReturnType(v) == v.type # "dict"

\* A pass that leaves the failed step out.
SkipFailedStep(last_action_index) == last_action_index - 1

\* __run_compensations: range(last_action_index, -1, -1) starts here.
FirstCompensationIndex(last_action_index) == last_action_index

\* A pass that a raising compensation ends.
StopAtRaise(index, raised) == IF raised THEN -1 ELSE index - 1

\* A pass that calls a compensation that raised once more.
RetryRaised(index, raised) == IF raised THEN index ELSE index - 1

\* __run_compensations: the next index of the range, after a compensation
\* that returned (raised = FALSE) or raised.
NextCompensationIndex(index, raised) == index - 1

\* An error put at the head of the list.
InsertFirst(exceptions, ex) == <<ex>> \o exceptions

\* __run_compensations: compensation_exceptions.append(ex)
RecordException(exceptions, ex) == Append(exceptions, ex)

\* One call as the log keeps it; fn is the callable called, the one the
\* Action at the index holds (self.__action, self.__compensation).
Call(op, index, arg, raised, value, error) ==
    [op |-> op, index |-> index, arg |-> arg, raised |-> raised,
     value |-> value, error |-> error,
     fn |-> IF op = "act" THEN GetAction(index).action
            ELSE GetAction(index).compensation]

\* The locals of an execute() call that was not made yet.
NotCalled ==
    [pc |-> "idle", action_index |-> 0, kwargs |-> Dict({}), e |-> NoError,
     compensation_index |-> -1, compensation_exceptions |-> <<>>,
     outcome |-> NoOutcome("none"), log |-> <<>>, saga |-> 0]

----------------------------------------------------------------------------
\* No execute() call was made yet.
NoCall ==
    /\ pc = "idle"
    /\ action_index = 0
    /\ kwargs = Dict({})
    /\ e = NoError
    /\ compensation_index = -1
    /\ compensation_exceptions = <<>>
    /\ outcome = NoOutcome("none")
    /\ log = <<>>
    /\ saga = 0
    /\ suspended = NotCalled

(* Saga([Action(a1, c1), ..., Action(an, cn)]): one Saga over n new steps. *)
Init ==
    /\ \E n \in 0..MaxSteps :
           /\ actions = [i \in 1..n |->
                            NewAction(ActionCallable(i), CompensationCallable(i))]
           /\ added = n
    /\ sagas = 1
    /\ NoCall

(* Execute with the kwargs of the call before kept. *)
ExecuteKeepingKwargs ==
    /\ pc \in {"idle", "done"}
    /\ pc' = "acting"
    /\ action_index' = 0
    /\ e' = NoError
    /\ compensation_index' = -1
    /\ compensation_exceptions' = <<>>
    /\ outcome' = NoOutcome("running")
    /\ log' = <<>>
    /\ UNCHANGED <<actions, kwargs>>
    /\ \E s \in 1..sagas : saga' = s
    /\ UNCHANGED <<added, sagas, suspended>>

(* execute() is called: kwargs = {} and the loop starts. *)
Execute ==
    /\ pc \in {"idle", "done"}
    /\ pc' = "acting"
    /\ action_index' = 0
    /\ kwargs' = Dict({})
    /\ e' = NoError
    /\ compensation_index' = -1
    /\ compensation_exceptions' = <<>>
    /\ outcome' = NoOutcome("running")
    /\ log' = <<>>
    /\ UNCHANGED actions
    /\ \E s \in 1..sagas : saga' = s
    /\ UNCHANGED <<added, sagas, suspended>>

(* ActReturns with a bad return type unwound like a failed action: the     *)
(* compensations of the steps action_index..0 are called, then the         *)
(* TypeError is raised.                                                    *)
ActReturnsUnwindingBadType ==
    /\ pc = "acting"
    /\ ~LoopDone(action_index)
    /\ \E returned \in ReturnValues :
         LET new == NextKwargs(returned)
             called == Append(log, Call("act", action_index, Dict(kwargs.items),
                                        FALSE, returned, NoError))
             unwound == [n \in 1..(action_index + 1) |->
                           Call("compensate", action_index + 1 - n, NoArgs,
                                FALSE, None, NoError)]
         IN
         /\ actions' = [actions EXCEPT ![action_index + 1] =
                            RecordKwargs(GetAction(action_index), kwargs)]
         /\ kwargs' = new
         /\ IF BadReturnType(new)
              THEN /\ pc' = "done"
                   /\ log' = called \o unwound
                   /\ outcome' = ContractTypeError(action_index)
                   /\ UNCHANGED action_index
              ELSE /\ action_index' = action_index + 1
                   /\ log' = called
                   /\ UNCHANGED <<pc, outcome>>
    /\ UNCHANGED <<e, compensation_index, compensation_exceptions>>
    /\ UNCHANGED <<added, sagas, saga, suspended>>

(* One iteration of the loop whose action returns: act records the kwargs  *)
(* and calls the action, the result `or {}` becomes kwargs, and a kwargs   *)
(* that is not a dict raises the TypeError.                                *)
ActReturns ==
    /\ pc = "acting"
    /\ ~LoopDone(action_index)
    /\ \E returned \in ReturnValues :
         LET new == NextKwargs(returned) IN
         /\ actions' = [actions EXCEPT ![action_index + 1] =
                            RecordKwargs(GetAction(action_index), kwargs)]
         /\ log' = Append(log, Call("act", action_index, Dict(kwargs.items),
                                    FALSE, returned, NoError))
         /\ kwargs' = new
         /\ IF BadReturnType(new)
              THEN /\ pc' = "done"
                   /\ outcome' = ContractTypeError(action_index)
                   /\ UNCHANGED action_index
              ELSE /\ action_index' = action_index + 1
                   /\ UNCHANGED <<pc, outcome>>
    /\ UNCHANGED <<e, compensation_index, compensation_exceptions>>
    /\ UNCHANGED <<added, sagas, saga, suspended>>

(* ActRaises with a TypeError of the action left uncaught: it reaches the   *)
(* caller as it is and nothing is compensated.                             *)
ActRaisesTypeErrorEscapes ==
    /\ pc = "acting"
    /\ ~LoopDone(action_index)
    /\ \E type \in ActionErrorTypes :
         LET ex == Error(type, "action", action_index) IN
         /\ actions' = [actions EXCEPT ![action_index + 1] =
                            RecordKwargs(GetAction(action_index), kwargs)]
         /\ log' = Append(log, Call("act", action_index, Dict(kwargs.items),
                                    TRUE, None, ex))
         /\ e' = ex
         /\ IF type = "TypeError"
              THEN /\ pc' = "done"
                   /\ outcome' = [kind |-> "TypeError", action |-> NoError,
                                  compensations |-> <<>>, error |-> ex]
                   /\ UNCHANGED <<compensation_index, compensation_exceptions>>
              ELSE /\ pc' = "compensating"
                   /\ compensation_index' = FirstCompensationIndex(action_index)
                   /\ compensation_exceptions' = <<>>
                   /\ UNCHANGED outcome
    /\ UNCHANGED <<action_index, kwargs>>
    /\ UNCHANGED <<added, sagas, saga, suspended>>

(* ActRaises with the kwargs recorded only after the action returned: an   *)
(* action that raises leaves the step's kwargs as they were.               *)
ActRaisesUnrecorded ==
    /\ pc = "acting"
    /\ ~LoopDone(action_index)
    /\ \E type \in ActionErrorTypes :
         LET ex == Error(type, "action", action_index) IN
         /\ log' = Append(log, Call("act", action_index, Dict(kwargs.items),
                                    TRUE, None, ex))
         /\ e' = ex
    /\ pc' = "compensating"
    /\ compensation_index' = FirstCompensationIndex(action_index)
    /\ compensation_exceptions' = <<>>
    /\ UNCHANGED <<actions, action_index, kwargs, outcome>>
    /\ UNCHANGED <<added, sagas, saga, suspended>>

(* One iteration of the loop whose action raises: act records the kwargs,  *)
(* the error is caught and __run_compensations(action_index) starts.       *)
ActRaises ==
    /\ pc = "acting"
    /\ ~LoopDone(action_index)
    /\ \E type \in ActionErrorTypes :
         LET ex == Error(type, "action", action_index) IN
         /\ actions' = [actions EXCEPT ![action_index + 1] =
                            RecordKwargs(GetAction(action_index), kwargs)]
         /\ log' = Append(log, Call("act", action_index, Dict(kwargs.items),
                                    TRUE, None, ex))
         /\ e' = ex
    /\ pc' = "compensating"
    /\ compensation_index' = FirstCompensationIndex(action_index)
    /\ compensation_exceptions' = <<>>
    /\ UNCHANGED <<action_index, kwargs, outcome>>
    /\ UNCHANGED <<added, sagas, saga, suspended>>

(* The loop ends: execute() returns None. *)
ExecuteReturns ==
    /\ pc = "acting"
    /\ LoopDone(action_index)
    /\ pc' = "done"
    /\ outcome' = Returned
    /\ UNCHANGED <<actions, action_index, kwargs, e, compensation_index,
                   compensation_exceptions, log>>
    /\ UNCHANGED <<added, sagas, saga, suspended>>

(* One iteration of __run_compensations whose compensation returns. *)
CompensateReturns ==
    /\ pc = "compensating"
    /\ compensation_index >= 0
    /\ log' = Append(log, Call("compensate", compensation_index,
                               CompensationArgs(GetAction(compensation_index)),
                               FALSE, None, NoError))
    /\ compensation_index' = NextCompensationIndex(compensation_index, FALSE)
    /\ UNCHANGED <<actions, pc, action_index, kwargs, e,
                   compensation_exceptions, outcome>>
    /\ UNCHANGED <<added, sagas, saga, suspended>>

(* One iteration of __run_compensations whose compensation raises: the     *)
(* error is appended to the list.                                          *)
CompensateRaises ==
    /\ pc = "compensating"
    /\ compensation_index >= 0
    /\ \E type \in CompensationErrorTypes :
         LET ex == Error(type, "compensation", compensation_index) IN
         /\ log' = Append(log, Call("compensate", compensation_index,
                              CompensationArgs(GetAction(compensation_index)),
                              TRUE, None, ex))
         /\ compensation_exceptions' = RecordException(compensation_exceptions, ex)
    /\ compensation_index' = NextCompensationIndex(compensation_index, TRUE)
    /\ UNCHANGED <<actions, pc, action_index, kwargs, e, outcome>>
    /\ UNCHANGED <<added, sagas, saga, suspended>>

(* The run started again from step 0 once the steps are compensated. *)
RetryAfterCompensation ==
    /\ pc = "compensating"
    /\ compensation_index < 0
    /\ pc' = "acting"
    /\ action_index' = 0
    /\ kwargs' = Dict({})
    /\ UNCHANGED <<actions, e, compensation_index, compensation_exceptions,
                   outcome, log>>
    /\ UNCHANGED <<added, sagas, saga, suspended>>

(* __run_compensations returns its list and execute raises the SagaError. *)
RaiseSagaError ==
    /\ pc = "compensating"
    /\ compensation_index < 0
    /\ pc' = "done"
    /\ outcome' = SagaError(e, compensation_exceptions)
    /\ UNCHANGED <<actions, action_index, kwargs, e, compensation_index,
                   compensation_exceptions, log>>
    /\ UNCHANGED <<added, sagas, saga, suspended>>

Next ==
    \/ Execute
    \/ ActReturns
    \/ ActRaises
    \/ ExecuteReturns
    \/ CompensateReturns
    \/ CompensateRaises
    \/ RaiseSagaError

Spec == Init /\ [][Next]_vars

(* The steps execute() takes once it is called: a call of an action or of  *)
(* a compensation returns or raises, and the code goes on.                 *)
RunStep ==
    \/ ActReturns
    \/ ActRaises
    \/ ExecuteReturns
    \/ CompensateReturns
    \/ CompensateRaises
    \/ RaiseSagaError

\* Spec with every call returning or raising: an execute() under way goes on.
SpecLive == Spec /\ WF_vars(RunStep)

----------------------------------------------------------------------------
(* SagaBuilder.  The builder keeps its steps in one list, SagaBuilder       *)
(* .actions, and build() hands that very list to the Saga it makes (line   *)
(* 135: Saga(self.actions)): the builder and every Saga it built hold the  *)
(* same list object and the same Action objects.  `actions` is that list.  *)

\* A step put at the head of the list.
InsertStepFirst(list, step) == <<step>> \o list

\* SagaBuilder.action: self.actions.append(action)
AddStep(list, step) == Append(list, step)

(* SagaBuilder.create(): an empty list, and no Saga yet. *)
InitBuilder ==
    /\ actions = <<>>
    /\ added = 0
    /\ sagas = 0
    /\ NoCall

(* SagaBuilder.action(a, c), called with the next pair while no execute()  *)
(* is under way: a new Action is appended to the list.                     *)
BuilderAction ==
    /\ pc \in {"idle", "done"}
    /\ added < MaxSteps
    /\ actions' = AddStep(actions, NewAction(ActionCallable(added + 1),
                                             CompensationCallable(added + 1)))
    /\ added' = added + 1
    /\ UNCHANGED <<pc, action_index, kwargs, e, compensation_index,
                   compensation_exceptions, outcome, log, saga, suspended,
                   sagas>>

(* SagaBuilder.build(): one more Saga over the builder's list. *)
Build ==
    /\ pc \in {"idle", "done"}
    /\ sagas < MaxSagas
    /\ sagas' = sagas + 1
    /\ UNCHANGED <<actions, pc, action_index, kwargs, e, compensation_index,
                   compensation_exceptions, outcome, log, saga, suspended,
                   added>>

NextBuilder ==
    \/ BuilderAction
    \/ Build
    \/ Next

\* A builder, the Sagas it builds and their execute() calls, one at a time.
SpecBuilder == InitBuilder /\ [][NextBuilder]_vars

----------------------------------------------------------------------------
(* Two execute() calls under way at once (two threads).  One of them runs  *)
(* and the other is suspended; each is made once.                          *)

\* The locals of the execute() call that runs.
Running ==
    [pc |-> pc, action_index |-> action_index, kwargs |-> kwargs, e |-> e,
     compensation_index |-> compensation_index,
     compensation_exceptions |-> compensation_exceptions,
     outcome |-> outcome, log |-> log, saga |-> saga]

(* The running call is suspended and the other call runs. *)
Switch ==
    /\ suspended' = Running
    /\ pc' = suspended.pc
    /\ action_index' = suspended.action_index
    /\ kwargs' = suspended.kwargs
    /\ e' = suspended.e
    /\ compensation_index' = suspended.compensation_index
    /\ compensation_exceptions' = suspended.compensation_exceptions
    /\ outcome' = suspended.outcome
    /\ log' = suspended.log
    /\ saga' = suspended.saga
    /\ UNCHANGED <<actions, sagas, added>>

(* A builder that was given n pairs and whose build() was called twice:    *)
(* two Saga objects.                                                       *)
InitConcurrent ==
    /\ \E n \in ConcurrentSizes :
           /\ actions = [i \in 1..n |->
                            NewAction(ActionCallable(i), CompensationCallable(i))]
           /\ added = n
    /\ sagas = 2
    /\ NoCall

\* execute() is called by a thread that has not called it.
FirstExecute == pc = "idle" /\ Execute

NextConcurrent ==
    \/ FirstExecute
    \/ RunStep
    \/ Switch

\* Two threads, each calling execute() once on one of the two Sagas.
SpecConcurrent == InitConcurrent /\ [][NextConcurrent]_vars


----------------------------------------------------------------------------
(* What the claims speak of, read off the log of the current execute().    *)

ActCalls == SelectSeq(log, LAMBDA c : c.op = "act")

CompensateCalls == SelectSeq(log, LAMBDA c : c.op = "compensate")

Indices(calls) == [n \in 1..Len(calls) |-> calls[n].index]

\* <<k, k-1, ..., 0>>
Descending(k) == [n \in 1..(k + 1) |-> k + 1 - n]

\* <<0, 1, ..., n-1>>
Ascending(n) == [i \in 1..n |-> i - 1]

IsPrefix(s, t) ==
    /\ Len(s) <= Len(t)
    /\ \A n \in 1..Len(s) : s[n] = t[n]

\* The n-th call of the log is an action that raised.
ActRaisedAt(n) == log[n].op = "act" /\ log[n].raised

\* The n-th call of the log is an action that returned.
ActReturnedAt(n) == log[n].op = "act" /\ ~log[n].raised

\* The n-th call of the log is a compensation that raised.
CompensateRaisedAt(n) == log[n].op = "compensate" /\ log[n].raised

\* A result the contract allows: a dict or None.
Acceptable(v) == v = None \/ v.type = "dict"

\* A result that is a mapping, of whatever type.
IsMapping(v) == v.type \in {"dict", "OrderedDict"}

----------------------------------------------------------------------------
(* C1: if step k is the first step whose action raises, compensate() is    *)
(* invoked on exactly the steps 0..k, each once, in the order k, k-1, ..., *)
(* 0 (the compensations made so far are a prefix of that order, and all of *)
(* it once execute() has ended), and no step j > k is ever called.         *)
C1_CompensatesFailedAndEarlierDescending ==
    \A n \in 1..Len(log) :
        ActRaisedAt(n) =>
            LET k == log[n].index IN
            /\ \A m \in 1..(n - 1) : ~ActRaisedAt(m)
            /\ IsPrefix(Indices(CompensateCalls), Descending(k))
            /\ (pc = "done" => Indices(CompensateCalls) = Descending(k))
            /\ \A m \in 1..Len(log) : log[m].index <= k

\* A saga of three steps whose second action raised has ended.
C1_Witness ==
    /\ pc = "done"
    /\ Len(actions) = 3
    /\ outcome.kind = "SagaError"
    /\ \E n \in 1..Len(log) : ActRaisedAt(n) /\ log[n].index = 1

C3_FailedCompensationDoesNotStopPass ==
    /\ \A n \in 1..Len(log) :
           CompensateRaisedAt(n) =>
               IF n < Len(log)
                 THEN /\ log[n + 1].op = "compensate"
                      /\ log[n + 1].index = log[n].index - 1
                 ELSE \/ log[n].index = 0
                      \/ /\ pc = "compensating"
                         /\ compensation_index = log[n].index - 1
    /\ outcome.kind = "SagaError" =>
           /\ log # <<>>
           /\ log[Len(log)].op = "compensate"
           /\ log[Len(log)].index = 0

\* The compensations of steps 2 and 1 raised, the one of step 0 was called
\* all the same, and the SagaError was raised.
C3_Witness ==
    /\ outcome.kind = "SagaError"
    /\ \E n \in 1..Len(log) :
           /\ CompensateRaisedAt(n) /\ log[n].index = 2
           /\ n + 2 <= Len(log)
           /\ CompensateRaisedAt(n + 1)
           /\ log[n + 2].op = "compensate" /\ log[n + 2].index = 0

\* The errors of the compensations that raised, in the order of the calls.
RaisedCompensationErrors ==
    LET raised == SelectSeq(log, LAMBDA c : c.op = "compensate" /\ c.raised)
    IN  [n \in 1..Len(raised) |-> raised[n].error]

(* C4: the compensations of the SagaError are exactly the errors the       *)
(* compensations of this run raised, each once, by descending step index;  *)
(* the list is empty iff no compensation raised.                           *)
C4_CompensationErrorsCollectedInOrder ==
    outcome.kind = "SagaError" =>
        LET errors == outcome.compensations IN
        /\ errors = RaisedCompensationErrors
        /\ Len(errors) = Cardinality({n \in 1..Len(log) : CompensateRaisedAt(n)})
        /\ \A i, j \in 1..Len(errors) : i < j => errors[i].index > errors[j].index
        /\ (errors = <<>>) <=> (\A n \in 1..Len(log) : ~CompensateRaisedAt(n))

\* The compensations of steps 2 and 0 raised and the one of step 1 did not.
C4_Witness ==
    /\ outcome.kind = "SagaError"
    /\ Len(outcome.compensations) = 2
    /\ outcome.compensations[1].index = 2
    /\ outcome.compensations[2].index = 0

(* C5: the action of step 0 receives the empty mapping, and the action of  *)
(* step i+1 receives exactly the mapping the action of step i returned,    *)
(* the empty mapping when step i returned None or an empty mapping.        *)
C5_ContextThreading ==
    \A n \in 1..Len(log) :
        log[n].op = "act" =>
            IF log[n].index = 0
              THEN log[n].arg = Dict({})
              ELSE /\ n > 1
                   /\ ActReturnedAt(n - 1)
                   /\ log[n - 1].index = log[n].index - 1
                   /\ LET v == log[n - 1].value IN
                      \/ v = None /\ log[n].arg = Dict({})
                      \/ IsMapping(v) /\ log[n].arg = Dict(v.items)

(* C6: a compensation receives the context the action of its step received *)
(* in this run (not what the action returned), also when that action       *)
(* raised; when that context is empty it is called with no argument.       *)
C6_CompensationReceivesActionInput ==
    \A n \in 1..Len(log) :
        log[n].op = "compensate" =>
            \E m \in 1..(n - 1) :
                /\ log[m].op = "act"
                /\ log[m].index = log[n].index
                /\ \A o \in 1..Len(log) :
                       (log[o].op = "act" /\ log[o].index = log[n].index) => o = m
                /\ log[n].arg = IF log[m].arg.items = {} THEN NoArgs ELSE log[m].arg

\* Step 1 received a context with an item and raised, step 0 returned
\* another context than it received, and both were compensated.
C6_Witness ==
    \E m, n, o \in 1..Len(log) :
        /\ ActRaisedAt(m) /\ log[m].index = 1 /\ log[m].arg.items # {}
        /\ log[n].op = "compensate" /\ log[n].index = 1 /\ log[n].arg = log[m].arg
        /\ log[o].op = "compensate" /\ log[o].index = 0 /\ log[o].arg = NoArgs

(* C7: if an action returns, without raising, a value that is neither None *)
(* nor a mapping, whatever its truth value, execute() ends with the        *)
(* TypeError of that step, and the action was called once.                 *)
C7_NonMappingReturnRaisesTypeError ==
    pc = "done" =>
        \A n \in 1..Len(log) :
            (ActReturnedAt(n) /\ ~IsMapping(log[n].value) /\ log[n].value # None)
            => /\ outcome.kind = "TypeError"
               /\ outcome.error.index = log[n].index
               /\ Cardinality({m \in 1..Len(log) :
                      log[m].op = "act" /\ log[m].index = log[n].index}) = 1

(* C8: when execute() ends with the TypeError at step i, no compensate()   *)
(* was invoked on any step, and no step j > i was called: the call of the  *)
(* action of step i is the last call of the run.                           *)
C8_TypeErrorRunsNoCompensation ==
    outcome.kind = "TypeError" =>
        /\ CompensateCalls = <<>>
        /\ Indices(ActCalls) = Ascending(outcome.error.index + 1)
        /\ \A n \in 1..Len(log) : log[n].index <= outcome.error.index

\* The second action of three returned a bad value after the first succeeded.
C8_Witness ==
    /\ outcome.kind = "TypeError"
    /\ outcome.error.index = 1
    /\ Len(actions) = 3
    /\ Len(log) = 2

\* Some action raised in this run.
SomeActionRaised == \E n \in 1..Len(log) : ActRaisedAt(n)

\* None or a mapping of whatever type.
NoneOrMapping(v) == v = None \/ IsMapping(v)

\* Every call of an action of this run returned None or a mapping.
EveryActionReturnedNoneOrMapping ==
    \A n \in 1..Len(log) :
        log[n].op = "act" => ~log[n].raised /\ NoneOrMapping(log[n].value)

\* Every call of an action of this run returned None or a dict.
EveryActionReturnedAcceptable ==
    \A n \in 1..Len(log) :
        log[n].op = "act" => ~log[n].raised /\ Acceptable(log[n].value)

(* C9: execute() ends in exactly one of three ways: it returns iff every   *)
(* action returned an acceptable result, it raises a SagaError iff some    *)
(* action raised, it raises the bare TypeError iff some action returned a  *)
(* bad result and no earlier action raised.  Where the claim does not say  *)
(* whether a mapping that is no dict is acceptable, each direction is read *)
(* in the claim's favour.                                                  *)
C9_ThreeOutcomes ==
    pc = "done" =>
        /\ outcome.kind \in {"returned", "SagaError", "TypeError"}
        /\ outcome.kind = "SagaError" <=> SomeActionRaised
        /\ outcome.kind = "returned" => EveryActionReturnedNoneOrMapping
        /\ EveryActionReturnedAcceptable => outcome.kind = "returned"
        /\ outcome.kind = "TypeError" =>
               \E n \in 1..Len(log) :
                   ActReturnedAt(n) /\ ~Acceptable(log[n].value)
        /\ \A n \in 1..Len(log) :
               (/\ ActReturnedAt(n) /\ ~NoneOrMapping(log[n].value)
                /\ \A m \in 1..(n - 1) : ~ActRaisedAt(m))
               => outcome.kind = "TypeError"

(* C10: the action field of the SagaError is the very error the first      *)
(* failing action raised, and it is none of the compensation errors.       *)
C10_SagaErrorCarriesActionError ==
    outcome.kind = "SagaError" =>
        /\ \E n \in 1..Len(log) :
               /\ ActRaisedAt(n)
               /\ \A m \in 1..(n - 1) : ~ActRaisedAt(m)
               /\ outcome.action = log[n].error
        /\ \A i \in 1..Len(outcome.compensations) :
               outcome.compensations[i] # outcome.action

\* A SagaError for an action that raised a TypeError, with two compensation
\* errors.
C10_Witness ==
    /\ outcome.kind = "SagaError"
    /\ outcome.action.type = "TypeError"
    /\ outcome.action.by = "action"
    /\ Len(outcome.compensations) = 2


(* C11: every SagaError execute() raises stands for a run in which an      *)
(* action raised and at least one compensation raised too: its             *)
(* compensations list is not empty.                                        *)
C11_SagaErrorHasCompensationError ==
    outcome.kind = "SagaError" =>
        /\ SomeActionRaised
        /\ \E n \in 1..Len(log) : CompensateRaisedAt(n)
        /\ outcome.compensations # <<>>

----------------------------------------------------------------------------
\* The argument a freshly built Saga passes in the n-th call of a run whose
\* calls so far behaved as those of the log did.
FreshArg(n) ==
    IF log[n].op = "act"
      THEN IF n = 1 THEN Dict({}) ELSE Dict(NextKwargs(log[n - 1].value).items)
      ELSE LET own == {m \in 1..(n - 1) :
                          log[m].op = "act" /\ log[m].index = log[n].index}
           IN  IF own = {} THEN NoArgs
               ELSE LET m == CHOOSE m \in own : TRUE
                    IN  IF log[m].arg.items = {} THEN NoArgs ELSE log[m].arg

\* The step a freshly built Saga calls in the n-th call of such a run.
FreshIndex(n) ==
    IF n = 1 THEN 0
    ELSE IF log[n].op = "act" THEN log[n - 1].index + 1
    ELSE IF log[n - 1].op = "act" THEN log[n - 1].index
    ELSE log[n - 1].index - 1

(* C14: whatever the execute() calls made before on the Saga, a call       *)
(* starts at step 0 with the empty context and makes the calls, with the   *)
(* arguments, a freshly built Saga makes when the actions and              *)
(* compensations behave the same; a compensation receives a context        *)
(* recorded by an action call of this run.                                 *)
C14_ReexecutionIndependent ==
    /\ log # <<>> => log[1].op = "act"
    /\ \A n \in 1..Len(log) :
           /\ log[n].index = FreshIndex(n)
           /\ log[n].arg = FreshArg(n)
           /\ log[n].op = "compensate" =>
                  \E m \in 1..(n - 1) :
                      log[m].op = "act" /\ log[m].index = log[n].index

\* A run that ended at step 0, compensated with no argument, on a Saga whose
\* step 1 holds the context with an item an earlier run recorded.
C14_Witness ==
    /\ pc = "done"
    /\ Len(actions) >= 2
    /\ Len(log) = 2
    /\ log[2].op = "compensate" /\ log[2].arg = NoArgs
    /\ Truthy(actions[2].kwargs)

(* C17: an error an action raises, of whatever type (a TypeError too),     *)
(* starts the compensation pass and reaches the caller inside a SagaError, *)
(* never as the bare TypeError; the bare TypeError is raised only for an   *)
(* action that returned.                                                   *)
C17_RaisedErrorNeverBareTypeError ==
    /\ \A n \in 1..Len(log) :
           ActRaisedAt(n) =>
               /\ pc \in {"compensating", "done"}
               /\ outcome.kind # "TypeError"
               /\ pc = "done" =>
                      /\ outcome.kind = "SagaError"
                      /\ outcome.action = log[n].error
                      /\ n < Len(log) /\ log[n + 1].op = "compensate"
    /\ outcome.kind = "TypeError" =>
           /\ log # <<>>
           /\ ActReturnedAt(Len(log))
           /\ outcome.error = Error("TypeError", "execute", log[Len(log)].index)

\* An action raised a TypeError of its own: its step was compensated and a
\* SagaError carries the error.
C17_Witness ==
    /\ pc = "done"
    /\ outcome.kind = "SagaError"
    /\ outcome.action = Error("TypeError", "action", 1)
    /\ Len(CompensateCalls) = 2

(* C18: in one run act is invoked at most once on a step and compensate at *)
(* most once, every call of an action comes before every call of a         *)
(* compensation, and no action is called after the first one that raised.  *)
C18_NothingRetried ==
    \A m, n \in 1..Len(log) :
        /\ (m # n /\ log[m].op = log[n].op) => log[m].index # log[n].index
        /\ (m < n /\ log[m].op = "compensate") => log[n].op = "compensate"
        /\ (m < n /\ ActRaisedAt(m)) => log[n].op # "act"

\* Three actions were called, the third raised, the compensation of step 1
\* raised, and the run ended with each step compensated once.
C18_Witness ==
    /\ pc = "done"
    /\ Len(log) = 6
    /\ ActRaisedAt(3)
    /\ CompensateRaisedAt(5) /\ log[5].index = 1
    /\ log[6].index = 0

(* C19 as stated: a result is rejected only when it is not a mapping, and  *)
(* a result that is a mapping, of whatever mapping type, empty or not, is  *)
(* accepted and is the context the next step receives.                     *)
C19_EveryMappingAccepted ==
    /\ outcome.kind = "TypeError" => ~IsMapping(log[Len(log)].value)
    /\ \A n \in 1..Len(log) :
           (ActReturnedAt(n) /\ IsMapping(log[n].value)) =>
               /\ ~(outcome.kind = "TypeError" /\ n = Len(log))
               /\ (n < Len(log) /\ log[n + 1].op = "act") =>
                      log[n + 1].arg.items = log[n].value.items

(* C19, amended: a result is rejected only when its type is not dict, and  *)
(* a result that is a dict, empty or not, is accepted and is the context   *)
(* the next step receives.                                                 *)
C19_EveryDictAccepted ==
    /\ outcome.kind = "TypeError" => log[Len(log)].value.type # "dict"
    /\ \A n \in 1..Len(log) :
           (ActReturnedAt(n) /\ log[n].value.type = "dict") =>
               /\ ~(outcome.kind = "TypeError" /\ n = Len(log))
               /\ n = Len(log) => kwargs = log[n].value
               /\ (n < Len(log) /\ log[n + 1].op = "act") =>
                      log[n + 1].arg = log[n].value

\* An empty dict and a dict with an item were returned and accepted, and the
\* third action received the dict with the item.
C19_Witness ==
    /\ Len(log) >= 3
    /\ ActReturnedAt(1) /\ log[1].value = Dict({})
    /\ ActReturnedAt(2) /\ log[2].value = Dict({<<"a", 1>>})
    /\ log[3].op = "act" /\ log[3].arg = Dict({<<"a", 1>>})

\* What a finished run may have given its caller.
FinalOutcomes == {"returned", "SagaError", "TypeError"}

(* C20: with every call returning or raising, an execute() under way ends  *)
(* in one of its final outcomes, after at most N calls of an action and at *)
(* most N calls of a compensation; the empty saga returns with no call.    *)
C20_ExecuteTerminates ==
    /\ [](/\ Len(ActCalls) <= Len(actions)
          /\ Len(CompensateCalls) <= Len(actions)
          /\ pc = "done" => outcome.kind \in FinalOutcomes
          /\ (pc = "done" /\ Len(actions) = 0) =>
                 (log = <<>> /\ outcome = Returned))
    /\ (pc \in {"acting", "compensating"}) ~> (pc = "done")

\* A run of three steps ended after three calls of an action and three of a
\* compensation.
C20_Witness ==
    /\ pc = "done"
    /\ outcome.kind \in FinalOutcomes
    /\ Len(actions) = 3
    /\ Len(ActCalls) = 3
    /\ Len(CompensateCalls) = 3


----------------------------------------------------------------------------
\* The callables of the steps of a list, in its order.
Callables(list) ==
    [i \in 1..Len(list) |-> <<list[i].action, list[i].compensation>>]

\* The pairs the caller gave the builder in its first n calls of action.
PairsGiven(n) == [i \in 1..n |-> <<ActionCallable(i), CompensationCallable(i)>>]

(* C12: the Saga a builder built holds one step for each pair given to     *)
(* action, in the order of the calls, step i with the action and the       *)
(* compensation of the i-th pair; execute() calls the actions in that      *)
(* order, and calls for a step the action or the compensation of its pair. *)
C12_BuilderKeepsCallOrder ==
    sagas >= 1 =>
        /\ Callables(actions) = PairsGiven(added)
        /\ IsPrefix(Indices(ActCalls), Ascending(Len(actions)))
        /\ \A n \in 1..Len(log) :
               log[n].fn = IF log[n].op = "act"
                             THEN ActionCallable(log[n].index + 1)
                             ELSE CompensationCallable(log[n].index + 1)

\* A Saga built from three pairs called the three actions in the order of
\* the pairs, the third raised, and the three compensations were called.
C12_Witness ==
    /\ sagas >= 1
    /\ pc = "done"
    /\ added = 3
    /\ Len(log) = 6
    /\ log[1].fn = ActionCallable(1)
    /\ log[3].fn = ActionCallable(3) /\ log[3].raised
    /\ log[4].fn = CompensationCallable(3)
    /\ log[6].fn = CompensationCallable(1)

(* C13: once a Saga is built its steps are those added before build() was  *)
(* called: no later call on the builder changes the number or the order of *)
(* the steps of a Saga that exists.                                        *)
C13_BuiltSagaStepsNeverChange ==
    [][sagas >= 1 => Callables(actions') = Callables(actions)]_vars

----------------------------------------------------------------------------
\* The argument a compensation is given for the context an action received.
AsCompensationArgs(context) == IF context.items = {} THEN NoArgs ELSE context

\* In the calls of one execute(), each compensation received the context
\* the action of its step received in that same execute().
ReceivedOwnContexts(calls) ==
    \A n \in 1..Len(calls) :
        calls[n].op = "compensate" =>
            \E m \in 1..(n - 1) :
                /\ calls[m].op = "act"
                /\ calls[m].index = calls[n].index
                /\ calls[n].arg = AsCompensationArgs(calls[m].arg)

(* C15: two distinct Sagas obtained from build() share no step and no      *)
(* recorded context: with execute() calls on two distinct Sagas            *)
(* interleaved, each compensation receives the context its own Saga's run  *)
(* recorded.                                                               *)
C15_DistinctSagasShareNothing ==
    (saga >= 1 /\ suspended.saga >= 1 /\ saga # suspended.saga) =>
        /\ ReceivedOwnContexts(log)
        /\ ReceivedOwnContexts(suspended.log)

\* The contexts the calls of an execute() recorded for the step at index.
ContextsRecorded(calls, index) ==
    {calls[m].arg : m \in {m \in 1..Len(calls) :
                              calls[m].op = "act" /\ calls[m].index = index}}

\* Each compensation of `calls` received a context recorded, for its step,
\* by one of the two execute() calls.
ReceivedRecordedContexts(calls) ==
    \A n \in 1..Len(calls) :
        calls[n].op = "compensate" =>
            \E context \in ContextsRecorded(log, calls[n].index)
                           \cup ContextsRecorded(suspended.log, calls[n].index) :
                calls[n].arg = AsCompensationArgs(context)

(* C16: with two execute() calls interleaved on one Saga a compensation    *)
(* may receive a context other than the one the action of its step         *)
(* received in the same call (the witness); what it receives is always a   *)
(* context one of the two calls recorded for that step.                    *)
C16_CompensationReceivesSomeRecordedContext ==
    /\ ReceivedRecordedContexts(log)
    /\ ReceivedRecordedContexts(suspended.log)

\* Both calls run on the same Saga, and a compensation of the running call
\* received the context the other call recorded, not the one its own call
\* gave the action of the step.
C16_Witness ==
    /\ saga >= 1
    /\ saga = suspended.saga
    /\ \E n \in 1..Len(log) :
           /\ log[n].op = "compensate"
           /\ \A context \in ContextsRecorded(log, log[n].index) :
                  log[n].arg # AsCompensationArgs(context)
           /\ ContextsRecorded(log, log[n].index) # {}
           /\ \E context \in ContextsRecorded(suspended.log, log[n].index) :
                  log[n].arg = AsCompensationArgs(context)

=============================================================================
